---- MODULE Spec2Model ----
(***************************************************************************)
(* KDA asset allocation: the Alpha model (LongOnlyMomentumAlphaCreation)   *)
(* and the Portfolio construction model (OptimizationPortfolioConstruction)*)
(* as one state machine, driven step by step by the host framework.        *)
(*                                                                         *)
(* Numbers.  Prices are positive integers, returns and scores are exact    *)
(* rationals <<num, den>> (den > 0, lowest terms).  Times are integer      *)
(* ticks; one tick is the insight duration (a quarter of a daily bar).     *)
(***************************************************************************)
EXTENDS Integers, Sequences, FiniteSets, TLC

VARIABLES
    now,                    \* algorithm.Time / algorithm.UtcTime of the current step, in ticks
    pc,                     \* position in the step: "update", "targets", "done", "failed"
    activeSecurities,       \* algorithm.ActiveSecurities, in insertion order
    history,                \* the provider's table for the current time (None: not fetched)
    topMomentum,            \* the topMomentum argument both models are built with
    securities,             \* Alpha: self.securities
    topMomentumSecurities,  \* Alpha: self.topMomentumSecurities
    alphaRebalancingTime,   \* Alpha: self.rebalancingTime
    alphaCycle,             \* Alpha: locals of the rebalance branch of this step's Update
    dataOrInvested,         \* the candidates with data.ContainsKey(symbol) or Invested in this step
    insights,               \* the list Update returned, handed to CreateTargets
    insightCollection,      \* Portfolio: self.insightCollection
    nextExpiryTime,         \* Portfolio: self.nextExpiryTime
    pcmRebalancingTime,     \* Portfolio: self.rebalancingTime
    pcmCycle,               \* Portfolio: locals of this step's CreateTargets
    targets,                \* the list CreateTargets returned
    scClose,    \* scorer harness: the close column handed to the scorers
    scAlpha,    \* scorer harness: momentumScore of the Alpha SymbolData
    scPcm,      \* scorer harness: momentumScore of the Portfolio SymbolData
    scReturns,  \* scorer harness: returnSeries kept by the Portfolio SymbolData
    scDone,     \* scorer harness: the scorers have run
    stStore,    \* store harness: the insights an InsightCollection holds
    stTime,     \* store harness: the time the store is asked about
    stPhase,    \* store harness: "held", "active", "purged", "purged twice"
    stActive,   \* store harness: activeInsights (line 74)
    stLast,     \* store harness: lastActiveInsights (lines 77-79)
    stRemoved,  \* store harness: what each RemoveExpiredInsights call returned
    stBefore,   \* store harness: the store before each RemoveExpiredInsights call
    ucLast      \* universe harness: the changes OnSecuritiesChanged was last called with

----------------------------------------------------------------------------
(* Bounds of the model *)

\* close prices are drawn from 1..MaxPrice
MaxPrice == 2
\* the host stops stepping once the clock has reached MaxTime
MaxTime == 5
\* consecutive steps are 1..MaxStep ticks apart
MaxStep == 2
\* topMomentum is configured in 1..MaxTopMomentum
MaxTopMomentum == 2
\* ticks per daily bar
TicksPerBar == 4
\* ticks per rebalancing period
PeriodTicks == 3
\* optimizer weights are multiples of 1/WeightUnits
WeightUnits == 2

----------------------------------------------------------------------------
(* Program constants *)

HistoryBars == 253     \* algorithm.History(allSymbols, 253, Resolution.Daily)
Window1 == 21          \* returnSeries.tail(21)
Window3 == 63          \* returnSeries.tail(63)
Window6 == 126         \* returnSeries.tail(126)
Window12 == 252        \* returnSeries.tail(252)
Weight1 == 12          \* cumRet1 * 12
Weight3 == 4           \* cumRet3 * 4
Weight6 == 2           \* cumRet6 * 2

\* Python's None where a time is expected; float('nan') where a rational is
None == 0 - 2
NaNRat == <<0, 0>>

----------------------------------------------------------------------------
(* Exact rational arithmetic standing for the floats of pandas *)

Abs(x) == IF x < 0 THEN 0 - x ELSE x

RECURSIVE GCD(_, _)
GCD(a, b) == IF b = 0 THEN a ELSE GCD(b, a % b)

\* the rational n/d (d # 0) in lowest terms with a positive denominator
Rat(n, d) ==
    LET g == GCD(Abs(n), Abs(d))
        s == IF d < 0 THEN 0 - 1 ELSE 1
    IN  <<(s * n) \div g, (s * d) \div g>>

RatZero == <<0, 1>>
RatOne == <<1, 1>>
RatAdd(a, b) == Rat(a[1] * b[2] + b[1] * a[2], a[2] * b[2])
RatSub(a, b) == Rat(a[1] * b[2] - b[1] * a[2], a[2] * b[2])
RatMul(a, b) == Rat(a[1] * b[1], a[2] * b[2])
RatScale(a, k) == Rat(a[1] * k, a[2])
RatLess(a, b) == a[1] * b[2] < b[1] * a[2]

----------------------------------------------------------------------------
(* pandas Series operations used by the scorers *)

\* close.pct_change(periods = 1).dropna(): the simple return of each bar on
\* the bar before it; the first bar has none and is dropped
PctChange(close) ==
    [i \in 1..(IF Len(close) = 0 THEN 0 ELSE Len(close) - 1) |->
        RatSub(Rat(close[i + 1], close[i]), RatOne)]

\* series.tail(n): the last n entries, the whole series when it is shorter
TailN(s, n) == IF Len(s) <= n THEN s ELSE SubSeq(s, Len(s) - n + 1, Len(s))

\* series.add(1)
AddOne(s) == [i \in 1..Len(s) |-> RatAdd(s[i], RatOne)]

\* series.prod() over the entries lo..hi, by halves; the empty product is 1
RECURSIVE ProdRange(_, _, _)
ProdRange(s, lo, hi) ==
    IF lo > hi THEN RatOne
    ELSE IF lo = hi THEN s[lo]
    ELSE LET mid == (lo + hi) \div 2
         IN  RatMul(ProdRange(s, lo, mid), ProdRange(s, mid + 1, hi))

Prod(s) == ProdRange(s, 1, Len(s))

\* series.sum() over the entries lo..hi (no scorer sums: a summing scorer is
\* the slip the compounding rule excludes)
RECURSIVE SumRange(_, _, _)
SumRange(s, lo, hi) ==
    IF lo > hi THEN RatZero
    ELSE IF lo = hi THEN s[lo]
    ELSE LET mid == (lo + hi) \div 2
         IN  RatAdd(SumRange(s, lo, mid), SumRange(s, mid + 1, hi))

\* (returnSeries.tail(n).add(1).prod()) - 1
CumRet(returnSeries, n) == RatSub(Prod(AddOne(TailN(returnSeries, n))), RatOne)

CumRetSummed(returnSeries, n) ==
    LET t == TailN(returnSeries, n) IN SumRange(t, 1, Len(t))

\* cumRet1 * 12 + cumRet3 * 4 + cumRet6 * 2 + cumRet12
WeightedScore(c1, c3, c6, c12) ==
    RatAdd(RatAdd(RatAdd(RatScale(c1, Weight1), RatScale(c3, Weight3)),
                  RatScale(c6, Weight6)), c12)

\* a scorer that sums the returns of each window
AlphaScoreSummed(close) ==
    LET returnSeries == PctChange(close)
    IN  WeightedScore(CumRetSummed(returnSeries, Window1),
                      CumRetSummed(returnSeries, Window3),
                      CumRetSummed(returnSeries, Window6),
                      CumRetSummed(returnSeries, Window12))

\* Alpha SymbolData.CalculateMomentumScore on the symbol's close column
AlphaCalculateMomentumScore(close) ==
    LET returnSeries == PctChange(close)
        cumRet1 == CumRet(returnSeries, Window1)
        cumRet3 == CumRet(returnSeries, Window3)
        cumRet6 == CumRet(returnSeries, Window6)
        cumRet12 == CumRet(returnSeries, Window12)
    IN  WeightedScore(cumRet1, cumRet3, cumRet6, cumRet12)

\* Portfolio SymbolData.CalculateMomentumScore: keeps returnSeries as well
PcmCalculateMomentumScore(close) ==
    LET returnSeries == PctChange(close)
        cumRet1 == CumRet(returnSeries, Window1)
        cumRet3 == CumRet(returnSeries, Window3)
        cumRet6 == CumRet(returnSeries, Window6)
        cumRet12 == CumRet(returnSeries, Window12)
    IN  [returnSeries |-> returnSeries,
         momentumScore |-> WeightedScore(cumRet1, cumRet3, cumRet6, cumRet12)]

----------------------------------------------------------------------------
(* Close columns the data provider can return.  A column is described by   *)
(* its length and five price levels, one per stretch of the lookback:      *)
(* bars older than 252 bars before the last, then 126..251, 63..125,       *)
(* 21..62 and 0..20 bars before the last.                                  *)

Stretch(d) ==
    IF d >= Window12 THEN 1
    ELSE IF d >= Window6 THEN 2
    ELSE IF d >= Window3 THEN 3
    ELSE IF d >= Window1 THEN 4
    ELSE 5

CloseOf(len, levels) == [i \in 1..len |-> levels[Stretch(len - i)]]

ColumnLengths == {1, 2, Window1 + 1, Window3 + 1, Window6 + 1, HistoryBars}

Levels == [1..5 -> 1..MaxPrice]

----------------------------------------------------------------------------
(* Configuration (main.py) and the clock *)

riskyTickers == <<"SPY", "VGK">>            \* a prefix of the risky list of main.py
crashProtectionTicker == <<"IEF">>
canaryTickers == <<"VWO", "BND">>
\* allTickers = riskyTickers + crashProtectionTicker + canaryTickers
AllTickers == riskyTickers \o crashProtectionTicker \o canaryTickers

Range(seq) == {seq[i] : i \in DOMAIN seq}
Universe == Range(AllTickers)

\* x in list
InList(x, list) == \E i \in DOMAIN list : list[i] = x

Min(a, b) == IF a <= b THEN a ELSE b

\* self.insightExpiry = Time.Multiply(Extensions.ToTimeSpan(Resolution.Daily), 0.25)
insightExpiry == TicksPerBar \div 4

\* datetime.min / datetime.max: before and after every time of the run
UTCMIN == 0 - 1
UTCMAX == MaxTime + MaxStep + insightExpiry + 1

\* rebalancingPeriod(time): the end of the period that holds time, which is
\* strictly later than time (Expiry.EndOfMonth and its siblings)
rebalancingPeriod(time) == ((time \div PeriodTicks) + 1) * PeriodTicks

----------------------------------------------------------------------------
(* The table algorithm.History returns: per symbol either no entry, or a    *)
(* close column (described by length and levels, see CloseOf)              *)

NaN == 0 - 1

Missing == [kind |-> "missing", len |-> 0, levels |-> <<>>]   \* no rows for the symbol
NoClose == [kind |-> "noclose", len |-> 0, levels |-> <<>>]   \* rows without a close column
\* a close column on which CalculateMomentumScore raises
Malformed == [kind |-> "malformed", len |-> HistoryBars, levels |-> <<1, 1, 1, 1, 1>>]
Column(levels) == [kind |-> "close", len |-> HistoryBars, levels |-> levels]
Gap == Column(<<1, 1, 1, NaN, 1>>)          \* a NaN close inside the window
Flat == Column(<<1, 1, 1, 1, 1>>)           \* score 0
Down == Column(<<2, 2, 2, 2, 1>>)           \* score -19/2
UpOld == Column(<<1, 1, 2, 2, 2>>)          \* score 3
UpRecent == Column(<<1, 1, 1, 1, 2>>)       \* score 19
UpMid == Column(<<1, 1, 1, 2, 2>>)          \* score 7

\* the symbol has not been requested at the current time
Unasked == [kind |-> "unasked", len |-> 0, levels |-> <<>>]

FeedEntries == {Missing, NoClose, Malformed, Gap, Flat, Down, UpOld, UpMid, UpRecent}

\* what the provider may return for a symbol
FeedFor(symbol) ==
    IF symbol = canaryTickers[1] THEN {Missing, Down, UpRecent}
    ELSE IF InList(symbol, canaryTickers) THEN {Gap, Down, UpRecent}
    ELSE IF InList(symbol, crashProtectionTicker) THEN {NoClose, UpOld, UpRecent}
    ELSE IF symbol = riskyTickers[1] THEN {Gap, UpOld, UpRecent}
    ELSE {Malformed, UpOld, UpRecent}

\* a wider feed for the selection harness
WideFeedFor(symbol) ==
    IF InList(symbol, canaryTickers) THEN {Missing, Down, UpRecent}
    ELSE {Gap, Down, Flat, UpOld, UpMid, UpRecent}

\* the tables over the first n tickers, as lists in the order of AllTickers
RECURSIVE FeedRows(_, _)
FeedRows(wide, n) ==
    IF n = 0 THEN {<<>>}
    ELSE {Append(row, e) :
             row \in FeedRows(wide, n - 1),
             e \in (IF wide THEN WideFeedFor(AllTickers[n]) ELSE FeedFor(AllTickers[n]))}

TickerIndex(symbol) == CHOOSE i \in DOMAIN AllTickers : AllTickers[i] = symbol

TableOf(row) == [s \in Universe |-> row[TickerIndex(s)]]

Tables == {TableOf(row) : row \in FeedRows(FALSE, Len(AllTickers))}

WideTables == {TableOf(row) : row \in FeedRows(TRUE, Len(AllTickers))}

CloseColumn(entry) == CloseOf(entry.len, entry.levels)

\* str(symbol) not in history.index
\*   or history.loc[str(symbol)].get('close') is None
\*   or history.loc[str(symbol)].get('close').isna().any()
NoHistoricalData(entry) ==
    \/ entry.kind = "missing"
    \/ entry.kind = "noclose"
    \/ \E i \in 1..entry.len : CloseColumn(entry)[i] = NaN

\* CalculateMomentumScore raises on this entry (the except branch)
ScoreRaises(entry) == entry.kind = "malformed"

AlphaScoreOf(e) ==
    IF NoHistoricalData(e) \/ ScoreRaises(e) THEN NaNRat
    ELSE AlphaCalculateMomentumScore(CloseColumn(e))
PcmScoreOf(e) ==
    IF NoHistoricalData(e) \/ ScoreRaises(e) THEN NaNRat
    ELSE PcmCalculateMomentumScore(CloseColumn(e)).momentumScore

\* The checks and scores of the few entries of the feed, computed once
RECURSIVE NoDataRows(_)
NoDataRows(S) ==
    IF S = {} THEN <<>>
    ELSE LET e == CHOOSE x \in S : TRUE
         IN  (e :> NoHistoricalData(e)) @@ NoDataRows(S \ {e})

RECURSIVE AlphaScoreRows(_)
AlphaScoreRows(S) ==
    IF S = {} THEN <<>>
    ELSE LET e == CHOOSE x \in S : TRUE
         IN  (e :> AlphaScoreOf(e)) @@ AlphaScoreRows(S \ {e})

RECURSIVE PcmScoreRows(_)
PcmScoreRows(S) ==
    IF S = {} THEN <<>>
    ELSE LET e == CHOOSE x \in S : TRUE
         IN  (e :> PcmScoreOf(e)) @@ PcmScoreRows(S \ {e})

NoDataTable == NoDataRows(FeedEntries)
AlphaScoreTable == AlphaScoreRows(FeedEntries)
PcmScoreTable == PcmScoreRows(FeedEntries)

----------------------------------------------------------------------------
(* The calculations dictionary: SymbolData in insertion order *)

DictHas(d, k) == \E i \in DOMAIN d : d[i].Symbol = k
DictGet(d, k) == d[CHOOSE i \in DOMAIN d : d[i].Symbol = k].momentumScore
\* calculations[symbol] = value: a present key keeps its place
DictSet(d, k, v) ==
    IF DictHas(d, k)
    THEN [i \in DOMAIN d |->
             IF d[i].Symbol = k THEN [Symbol |-> k, momentumScore |-> v] ELSE d[i]]
    ELSE Append(d, [Symbol |-> k, momentumScore |-> v])
\* calculations.pop(symbol)
DictPop(d, k) == SelectSeq(d, LAMBDA e : e.Symbol # k)
Symbols(list) == [i \in DOMAIN list |-> list[i].Symbol]

----------------------------------------------------------------------------
(* Alpha: LongOnlyMomentumAlphaCreationModel *)

\* [x.Symbol for x in self.securities if x.Symbol.Value in tickers]
SymbolsOf(secs, tickers) == SelectSeq(secs, LAMBDA x : InList(x, tickers))

\* the loop over allSymbols that fills calculations
RECURSIVE AlphaCalculations(_, _, _, _)
AlphaCalculations(allSymbols, h, i, calculations) ==
    IF i > Len(allSymbols) THEN calculations
    ELSE LET symbol == allSymbols[i]
         IN  IF NoDataTable[h[symbol]]
             THEN AlphaCalculations(allSymbols, h, i + 1, calculations)
             ELSE IF ScoreRaises(h[symbol])
             THEN AlphaCalculations(allSymbols, h, i + 1, DictPop(calculations, symbol))
             ELSE AlphaCalculations(allSymbols, h, i + 1,
                      DictSet(calculations, symbol, AlphaScoreTable[h[symbol]]))

\* x.momentumScore > 0 (and the test with >= in its place)
NonNegativeScore(score) == score[1] >= 0
PositiveScore(score) == score[1] > 0

\* Absolute Momentum: filter(lambda x: x.momentumScore > 0 and x.Symbol in relevantSymbols, ...)
AbsoluteMomentum(calculations, relevantSymbols) ==
    SelectSeq(calculations,
              LAMBDA x : PositiveScore(x.momentumScore) /\ InList(x.Symbol, relevantSymbols))

\* a sort that puts x before the entries of equal score
InsertBeforeEqual(sorted, x) ==
    LET k == Cardinality({i \in DOMAIN sorted :
                             RatLess(x.momentumScore, sorted[i].momentumScore)})
    IN  SubSeq(sorted, 1, k) \o <<x>> \o SubSeq(sorted, k + 1, Len(sorted))

\* sorted(list, key = momentumScore, reverse = True): stable, equal keys keep
\* their order; x goes behind every entry whose score is not lower
InsertDescending(sorted, x) ==
    LET k == Cardinality({i \in DOMAIN sorted :
                             ~RatLess(sorted[i].momentumScore, x.momentumScore)})
    IN  SubSeq(sorted, 1, k) \o <<x>> \o SubSeq(sorted, k + 1, Len(sorted))

RECURSIVE SortedDescending(_, _, _)
SortedDescending(list, i, sorted) ==
    IF i > Len(list) THEN sorted
    ELSE SortedDescending(list, i + 1, InsertDescending(sorted, list[i]))

\* Relative Momentum: sorted(positiveMomentumSecurities, ...)[:self.topMomentum]
RelativeMomentum(positiveMomentumSecurities, k) ==
    LET sorted == SortedDescending(positiveMomentumSecurities, 1, <<>>)
    IN  SubSeq(sorted, 1, Min(k, Len(sorted)))

\* a count of every scored canary, positive or not
AlphaPctCountsAll(calculations, canarySymbols) ==
    LET canaryPosMomList ==
            SelectSeq(calculations, LAMBDA x : InList(x.Symbol, canarySymbols))
    IN  IF Len(canarySymbols) = 0 THEN [raised |-> TRUE, value |-> NaNRat]
        ELSE [raised |-> FALSE, value |-> Rat(Len(canaryPosMomList), Len(canarySymbols))]

\* Alpha CalculatePctAggressive: the rational
\* len(canaryPosMomList) / len(canarySymbols); division by zero raises
AlphaCalculatePctAggressive(calculations, canarySymbols) ==
    LET canaryPosMomList ==
            SelectSeq(calculations,
                      LAMBDA x : PositiveScore(x.momentumScore) /\ InList(x.Symbol, canarySymbols))
    IN  IF Len(canarySymbols) = 0 THEN [raised |-> TRUE, value |-> NaNRat]
        ELSE [raised |-> FALSE, value |-> Rat(Len(canaryPosMomList), Len(canarySymbols))]

\* variants of lines 127-142: the test "not in topMomentumSymbols" left out;
\* "pctAggressive <= 1" for "pctAggressive < 1"; the branch of 0 left out
InjectionWithoutMembershipTest(pctAggressive, topK, positiveMomentumSymbols, crashProtectionSymbol, crashProtectionSecurity) ==
    IF pctAggressive = RatZero
    THEN IF InList(crashProtectionSymbol[1], positiveMomentumSymbols)
         THEN [raised |-> FALSE, top |-> crashProtectionSecurity]
         ELSE [raised |-> FALSE, top |-> <<>>]
    ELSE IF RatLess(pctAggressive, RatOne)
    THEN IF InList(crashProtectionSymbol[1], positiveMomentumSymbols)
         THEN [raised |-> FALSE, top |-> Append(topK, crashProtectionSecurity[1])]
         ELSE [raised |-> FALSE, top |-> topK]
    ELSE [raised |-> FALSE, top |-> topK]

InjectionUpToOne(pctAggressive, topK, positiveMomentumSymbols, crashProtectionSymbol, crashProtectionSecurity) ==
    IF pctAggressive = RatZero
    THEN IF InList(crashProtectionSymbol[1], positiveMomentumSymbols)
         THEN [raised |-> FALSE, top |-> crashProtectionSecurity]
         ELSE [raised |-> FALSE, top |-> <<>>]
    ELSE IF /\ InList(crashProtectionSymbol[1], positiveMomentumSymbols)
            /\ ~InList(crashProtectionSymbol[1], topK)
    THEN [raised |-> FALSE, top |-> Append(topK, crashProtectionSecurity[1])]
    ELSE [raised |-> FALSE, top |-> topK]

InjectionKeepsTopAtZero(pctAggressive, topK, positiveMomentumSymbols, crashProtectionSymbol, crashProtectionSecurity) ==
    IF RatLess(pctAggressive, RatOne)
    THEN IF /\ InList(crashProtectionSymbol[1], positiveMomentumSymbols)
            /\ ~InList(crashProtectionSymbol[1], topK)
         THEN [raised |-> FALSE, top |-> Append(topK, crashProtectionSecurity[1])]
         ELSE [raised |-> FALSE, top |-> topK]
    ELSE [raised |-> FALSE, top |-> topK]

\* lines 127-142: what pctAggressive does to the top momentum list; the
\* index crashProtectionSymbol[0] raises when the list is empty
CrashProtectionInjection(pctAggressive, topK, positiveMomentumSymbols, crashProtectionSymbol, crashProtectionSecurity) ==
    IF pctAggressive = RatZero
    THEN IF Len(crashProtectionSymbol) = 0 THEN [raised |-> TRUE, top |-> topK]
         ELSE IF InList(crashProtectionSymbol[1], positiveMomentumSymbols)
         THEN [raised |-> FALSE, top |-> crashProtectionSecurity]
         ELSE [raised |-> FALSE, top |-> <<>>]
    ELSE IF RatLess(pctAggressive, RatOne)
    THEN IF Len(crashProtectionSymbol) = 0 THEN [raised |-> TRUE, top |-> topK]
         ELSE IF /\ InList(crashProtectionSymbol[1], positiveMomentumSymbols)
                 /\ ~InList(crashProtectionSymbol[1], topK)
         THEN [raised |-> FALSE, top |-> Append(topK, crashProtectionSecurity[1])]
         ELSE [raised |-> FALSE, top |-> topK]
    ELSE [raised |-> FALSE, top |-> topK]

\* lines 59-74: allSymbols = riskySymbols + crashProtectionSymbol + canarySymbols
AlphaAllSymbols(secs) ==
    SymbolsOf(secs, riskyTickers) \o SymbolsOf(secs, crashProtectionTicker)
        \o SymbolsOf(secs, canaryTickers)

\* the rebalance branch of Update (lines 53-149) on the table h
AlphaRebalance(secs, h, k) ==
    LET riskySymbols == SymbolsOf(secs, riskyTickers)
        crashProtectionSymbol == SymbolsOf(secs, crashProtectionTicker)
        relevantSymbols == riskySymbols \o crashProtectionSymbol
        canarySymbols == SymbolsOf(secs, canaryTickers)
        allSymbols == AlphaAllSymbols(secs)
        calculations == AlphaCalculations(allSymbols, h, 1, <<>>)
        positiveMomentumSecurities == AbsoluteMomentum(calculations, relevantSymbols)
        topK == Symbols(RelativeMomentum(positiveMomentumSecurities, k))
        pct == AlphaCalculatePctAggressive(calculations, canarySymbols)
        crashProtectionSecurity == SymbolsOf(secs, crashProtectionTicker)
        positiveMomentumSymbols == Symbols(positiveMomentumSecurities)
        inj == CrashProtectionInjection(pct.value, topK, positiveMomentumSymbols,
                                        crashProtectionSymbol, crashProtectionSecurity)
        locals == [fired |-> TRUE, completed |-> FALSE,
                   calculations |-> calculations,
                   canarySymbols |-> canarySymbols,
                   topK |-> topK,
                   pctAggressive |-> pct.value]
    IN  IF pct.raised
        THEN [raised |-> TRUE, top |-> topK, locals |-> locals]
        ELSE [raised |-> inj.raised, top |-> inj.top, locals |-> locals]

\* Insight.Price(security.Symbol, self.insightExpiry, self.insightDirection),
\* stamped by the framework with the time of the step
Insight(symbol, time) ==
    [Symbol |-> symbol, Direction |-> "Up",
     GeneratedTimeUtc |-> time, CloseTimeUtc |-> time + insightExpiry]

\* lines 155-167: one insight per listed security that has new data or is
\* invested (and one per listed security, whatever its data)
GenerateInsightsForAll(top, hasDataOrInvested, time) ==
    [i \in DOMAIN top |-> Insight(top[i], time)]
GenerateInsights(top, hasDataOrInvested, time) ==
    LET kept == SelectSeq(top, LAMBDA s : s \in hasDataOrInvested)
    IN  [i \in DOMAIN kept |-> Insight(kept[i], time)]

----------------------------------------------------------------------------
(* The framework's InsightCollection, as section 4.3 describes the store:  *)
(* a list in arrival order, queried on demand                              *)

\* Add(signal): append, no dedup
StoreAdd(store, insight) == Append(store, insight)

RECURSIVE StoreAddAll(_, _, _)
StoreAddAll(store, list, i) ==
    IF i > Len(list) THEN store ELSE StoreAddAll(StoreAdd(store, list[i]), list, i + 1)

\* active as of T: generatedAt <= T < expiresAt (and with the expiry included)
IsActiveInclusive(insight, time) ==
    insight.GeneratedTimeUtc <= time /\ time <= insight.CloseTimeUtc
IsActive(insight, time) ==
    insight.GeneratedTimeUtc <= time /\ time < insight.CloseTimeUtc

\* expired as of T: expiresAt <= T (and with T itself left out)
IsExpiredStrict(insight, time) == insight.CloseTimeUtc < time
IsExpired(insight, time) == insight.CloseTimeUtc <= time

\* stable ascending sort by GeneratedTimeUtc
InsertByGenerated(sorted, x) ==
    LET k == Cardinality({i \in DOMAIN sorted :
                             sorted[i].GeneratedTimeUtc <= x.GeneratedTimeUtc})
    IN  SubSeq(sorted, 1, k) \o <<x>> \o SubSeq(sorted, k + 1, Len(sorted))

RECURSIVE SortedByGenerated(_, _, _)
SortedByGenerated(list, i, sorted) ==
    IF i > Len(list) THEN sorted
    ELSE SortedByGenerated(list, i + 1, InsertByGenerated(sorted, list[i]))

RECURSIVE ByInstrument(_, _)
ByInstrument(list, i) ==
    IF i > Len(AllTickers) THEN <<>>
    ELSE SortedByGenerated(SelectSeq(list, LAMBDA x : x.Symbol = AllTickers[i]), 1, <<>>)
            \o ByInstrument(list, i + 1)

\* GetActiveInsights(T): ordered by instrument, then by generation time
GetActiveInsights(store, time) ==
    ByInstrument(SelectSeq(store, LAMBDA x : IsActive(x, time)), 1)

\* RemoveExpiredInsights(T): what is removed, and what stays
ExpiredInsights(store, time) ==
    ByInstrument(SelectSeq(store, LAMBDA x : IsExpired(x, time)), 1)
WithoutExpired(store, time) == SelectSeq(store, LAMBDA x : ~IsExpired(x, time))

\* HasActiveInsights(symbol, T)
HasActiveInsights(store, symbol, time) ==
    \E i \in DOMAIN store : store[i].Symbol = symbol /\ IsActive(store[i], time)

\* GetNextExpiryTime(): the earliest expiry held, None when nothing is held
\* (the caller's "is None" test, lines 185-186, is for that answer)
GetNextExpiryTime(store) ==
    IF Len(store) = 0 THEN None
    ELSE CHOOSE t \in {store[i].CloseTimeUtc : i \in DOMAIN store} :
            \A i \in DOMAIN store : t <= store[i].CloseTimeUtc

----------------------------------------------------------------------------
(* Portfolio: OptimizationPortfolioConstructionModel *)

\* list.remove(x): drops the first occurrence
RemoveFirst(list, x) ==
    IF ~InList(x, list) THEN list
    ELSE LET k == CHOOSE i \in DOMAIN list :
                      list[i] = x /\ \A j \in 1..(i - 1) : list[j] # x
         IN  SubSeq(list, 1, k - 1) \o SubSeq(list, k + 1, Len(list))

\* itertools.groupby(list, lambda x: x.Symbol): runs of equal neighbours
RECURSIVE GroupBySymbol(_, _, _)
GroupBySymbol(list, i, groups) ==
    IF i > Len(list) THEN groups
    ELSE IF Len(groups) > 0 /\ groups[Len(groups)][1].Symbol = list[i].Symbol
    THEN GroupBySymbol(list, i + 1,
             [groups EXCEPT ![Len(groups)] = Append(@, list[i])])
    ELSE GroupBySymbol(list, i + 1, Append(groups, <<list[i]>>))

\* lines 77-79: sorted(g, key = GeneratedTimeUtc)[-1] of every group (and
\* with [0] in place of [-1])
FirstActiveInsights(activeInsights) ==
    LET groups == GroupBySymbol(activeInsights, 1, <<>>)
    IN  [i \in DOMAIN groups |->
            LET sorted == SortedByGenerated(groups[i], 1, <<>>) IN sorted[1]]
LastActiveInsights(activeInsights) ==
    LET groups == GroupBySymbol(activeInsights, 1, <<>>)
    IN  [i \in DOMAIN groups |->
            LET sorted == SortedByGenerated(groups[i], 1, <<>>) IN sorted[Len(sorted)]]

\* ShouldCreateTargets: the test (and the test with > in place of >=); the
\* caller advances rebalancingTime when it holds
ShouldCreateTargetsStrict(time, rebalancingTime, lastActiveSymbols) ==
    time > rebalancingTime /\ Len(lastActiveSymbols) > 0
ShouldCreateTargets(time, rebalancingTime, lastActiveSymbols) ==
    time >= rebalancingTime /\ Len(lastActiveSymbols) > 0

\* the loop over allSymbols (lines 120-138): calculations, and lastActiveSymbols
\* without the symbols that have no data or cannot be scored
RECURSIVE PcmCalculations(_, _, _, _)
PcmCalculations(allSymbols, h, i, acc) ==
    IF i > Len(allSymbols) THEN acc
    ELSE LET symbol == allSymbols[i]
         IN  IF NoDataTable[h[symbol]]
             THEN PcmCalculations(allSymbols, h, i + 1,
                      [acc EXCEPT !.lastActiveSymbols = RemoveFirst(@, symbol)])
             ELSE IF ScoreRaises(h[symbol])
             THEN PcmCalculations(allSymbols, h, i + 1,
                      [calculations |-> DictPop(acc.calculations, symbol),
                       lastActiveSymbols |-> RemoveFirst(acc.lastActiveSymbols, symbol)])
             ELSE PcmCalculations(allSymbols, h, i + 1,
                      [acc EXCEPT !.calculations =
                          DictSet(@, symbol, PcmScoreTable[h[symbol]])])

\* Portfolio CalculatePctAggressive (the text of the Alpha copy)
PcmCalculatePctAggressive(calculations, canarySymbols) ==
    LET canaryPosMomList ==
            SelectSeq(calculations,
                      LAMBDA x : PositiveScore(x.momentumScore) /\ InList(x.Symbol, canarySymbols))
    IN  IF Len(canarySymbols) = 0 THEN [raised |-> TRUE, value |-> NaNRat]
        ELSE [raised |-> FALSE, value |-> Rat(Len(canaryPosMomList), Len(canarySymbols))]

\* line 66: no new insight and the next expiry time not yet passed (and the
\* test with < in place of <=)
NothingNewStrict(newInsights, time, nextExpiry) ==
    Len(newInsights) = 0 /\ time < nextExpiry
NothingNewAtAll(newInsights, time, nextExpiry) == Len(newInsights) = 0
NothingNew(newInsights, time, nextExpiry) ==
    Len(newInsights) = 0 /\ time <= nextExpiry

\* what scipy's minimize can hand back for n columns: a weight vector within
\* the bounds that meets the budget, or a vector holding NaN ("null"), or the
\* ValueError of ObjectiveFunction on a zero standard deviation ("raise")
RECURSIVE SumTo(_, _)
SumTo(f, n) == IF n = 0 THEN 0 ELSE f[n] + SumTo(f, n - 1)

\* ObjectiveFunction, lines 84-85: the ValueError on an annualized portfolio
\* standard deviation of exactly 0 (and the function without that test)
ObjectiveFunctionUntested(annualizedPortfolioStd) == "value"
ObjectiveFunction(annualizedPortfolioStd) ==
    IF annualizedPortfolioStd = 0 THEN "raise" ELSE "value"

\* stdZero: an evaluation of the objective found the standard deviation 0
SolverOutcomes(n, minWeight, maxWeight) ==
    LET answers ==
            {[kind |-> "weights", x |-> x] :
                x \in {y \in [1..n -> minWeight..maxWeight] : SumTo(y, n) = WeightUnits}}
            \cup {[kind |-> "null", x |-> <<>>]}
    IN  {[kind |-> a.kind, x |-> a.x, stdZero |-> FALSE] : a \in answers}
        \cup (IF ObjectiveFunction(0) = "raise"
              THEN {[kind |-> "raise", x |-> <<>>, stdZero |-> TRUE]}
              ELSE {[kind |-> a.kind, x |-> a.x, stdZero |-> TRUE] : a \in answers})

\* CustomPortfolioOptimizer(minWeight = 0, maxWeight = 1, ...), in weight units
optimizerMinWeight == 0
optimizerMaxWeight == WeightUnits

\* Optimize: x0 = size * [1. / size] divides by zero on no columns
OptimizeOutcomes(size) ==
    IF size = 0 THEN {[kind |-> "raise", x |-> <<>>, stdZero |-> FALSE]}
    ELSE SolverOutcomes(size, optimizerMinWeight, optimizerMaxWeight)

\* weights[str(symbol)] of a Series held as a list of [Symbol, weight]
HasWeight(weights, symbol) == \E i \in DOMAIN weights : weights[i].Symbol = symbol
WeightOf(weights, symbol) ==
    weights[CHOOSE i \in DOMAIN weights : weights[i].Symbol = symbol].weight
SetWeight(weights, symbol, w) ==
    IF HasWeight(weights, symbol)
    THEN [i \in DOMAIN weights |->
             IF weights[i].Symbol = symbol THEN [Symbol |-> symbol, weight |-> w]
             ELSE weights[i]]
    ELSE Append(weights, [Symbol |-> symbol, weight |-> w])

\* DetermineTargetPercent after the optimizer has answered outcome.x for the
\* columns: small weights snapped to 0, the crash protection symbol added
\* with 0 when it has no column (and the function without lines 268-270)
DetermineTargetPercentWithoutInsertion(columns, outcome, crashProtectionSymbol) ==
    [raised |-> Len(crashProtectionSymbol) = 0,
     weights |-> [i \in DOMAIN columns |->
                     [Symbol |-> columns[i],
                      weight |-> IF outcome.kind = "null" THEN NaNRat
                                 ELSE IF outcome.x[i] <= 0 THEN RatZero
                                 ELSE Rat(outcome.x[i], WeightUnits)]]]
DetermineTargetPercent(columns, outcome, crashProtectionSymbol) ==
    LET weights == [i \in DOMAIN columns |->
                       [Symbol |-> columns[i],
                        weight |-> IF outcome.kind = "null" THEN NaNRat
                                   ELSE IF outcome.x[i] <= 0 THEN RatZero
                                   ELSE Rat(outcome.x[i], WeightUnits)]]
    IN  IF Len(crashProtectionSymbol) = 0 THEN [raised |-> TRUE, weights |-> weights]
        ELSE IF ~HasWeight(weights, crashProtectionSymbol[1])
        THEN [raised |-> FALSE,
              weights |-> SetWeight(weights, crashProtectionSymbol[1], RatZero)]
        ELSE [raised |-> FALSE, weights |-> weights]

\* optWeights.isnull().values.any()
AnyNull(weights) == \E i \in DOMAIN weights : weights[i].weight = NaNRat

\* finalWeights = optWeights * pctAggressive (and finalWeights = optWeights)
UnscaledWeights(optWeights, pctAggressive) == optWeights
ScaleWeights(optWeights, pctAggressive) ==
    [i \in DOMAIN optWeights |->
        [Symbol |-> optWeights[i].Symbol,
         weight |-> RatMul(optWeights[i].weight, pctAggressive)]]

\* symbol in crashProtectionSymbol and pctAggressive < 1 (and the test
\* without the first half)
GetsOverflowAnySymbol(symbol, crashProtectionSymbol, pctAggressive) ==
    RatLess(pctAggressive, RatOne)
GetsOverflow(symbol, crashProtectionSymbol, pctAggressive) ==
    InList(symbol, crashProtectionSymbol) /\ RatLess(pctAggressive, RatOne)

\* PortfolioTarget.Percent(algorithm, symbol, weight) / PortfolioTarget(symbol, 0);
\* Percent is taken to build a target for every symbol (never None, line 167)
PortfolioTarget(symbol, weight, kind) ==
    [Symbol |-> symbol, weight |-> weight, kind |-> kind]

\* lines 155-168: the loop over lastActiveSymbols; finalWeights is updated in
\* place; a symbol without a weight raises KeyError
RECURSIVE EmitTargets(_, _, _, _, _, _)
EmitTargets(lastActiveSymbols, i, finalWeights, crashProtectionSymbol, pctAggressive, out) ==
    IF i > Len(lastActiveSymbols) THEN [raised |-> FALSE, targets |-> out]
    ELSE LET symbol == lastActiveSymbols[i]
         IN  IF ~HasWeight(finalWeights, symbol) THEN [raised |-> TRUE, targets |-> out]
             ELSE LET fw == IF GetsOverflow(symbol, crashProtectionSymbol, pctAggressive)
                            THEN SetWeight(finalWeights, symbol,
                                     RatAdd(WeightOf(finalWeights, symbol),
                                            RatSub(RatOne, pctAggressive)))
                            ELSE finalWeights
                  IN  EmitTargets(lastActiveSymbols, i + 1, fw, crashProtectionSymbol,
                          pctAggressive,
                          Append(out, PortfolioTarget(symbol, WeightOf(fw, symbol), "weight")))

\* lines 175-179: one flatten target per run of expired insights of a symbol
\* that has no active insight left (and without the HasActiveInsights test)
ExpiredTargetsForAll(expiredInsights, store, time) ==
    LET groups == GroupBySymbol(expiredInsights, 1, <<>>)
    IN  [i \in DOMAIN groups |-> PortfolioTarget(groups[i][1].Symbol, RatZero, "flatten")]
ExpiredTargets(expiredInsights, store, time) ==
    LET groups == GroupBySymbol(expiredInsights, 1, <<>>)
        flat == SelectSeq(groups, LAMBDA g : ~HasActiveInsights(store, g[1].Symbol, time))
    IN  [i \in DOMAIN flat |-> PortfolioTarget(flat[i][1].Symbol, RatZero, "flatten")]

\* lines 184-186: UTCMIN stands in for None (and UTCMAX in its place)
NextExpiryMax(store) ==
    IF GetNextExpiryTime(store) = None THEN UTCMAX ELSE GetNextExpiryTime(store)
NextExpiryTimeUpdate(store) ==
    IF GetNextExpiryTime(store) = None THEN UTCMIN ELSE GetNextExpiryTime(store)

\* lines 92-109: topMomentumSymbols (without the crash protection symbol when
\* more symbols are active than topMomentum) and allSymbols (and the list
\* without lines 99-101)
PcmTopMomentumSymbolsKeepsAll(lastActiveSymbols, active, k) == lastActiveSymbols
PcmTopMomentumSymbols(lastActiveSymbols, active, k) ==
    LET crashProtectionSymbol == SymbolsOf(active, crashProtectionTicker)
    IN  IF Len(lastActiveSymbols) > k /\ Len(crashProtectionSymbol) > 0
        THEN RemoveFirst(lastActiveSymbols, crashProtectionSymbol[1])
        ELSE lastActiveSymbols

PcmAllSymbols(lastActiveSymbols, active, k) ==
    PcmTopMomentumSymbols(lastActiveSymbols, active, k) \o SymbolsOf(active, canaryTickers)

\* lines 92-141 of CreateTargets: everything before the optimizer is called
PcmPrepare(lastActiveSymbols, active, h, k) ==
    LET crashProtectionSymbol == SymbolsOf(active, crashProtectionTicker)
        tooMany == Len(lastActiveSymbols) > k
        topMomentumSymbols == PcmTopMomentumSymbols(lastActiveSymbols, active, k)
        canarySymbols == SymbolsOf(active, canaryTickers)
        allSymbols == topMomentumSymbols \o canarySymbols
        acc == PcmCalculations(allSymbols, h, 1,
                   [calculations |-> <<>>, lastActiveSymbols |-> lastActiveSymbols])
        pct == PcmCalculatePctAggressive(acc.calculations, canarySymbols)
        \* logReturnsDict: the scored symbols that are top momentum symbols
        columns == Symbols(SelectSeq(acc.calculations,
                               LAMBDA x : InList(x.Symbol, topMomentumSymbols)))
    IN  [raised |-> (tooMany /\ Len(crashProtectionSymbol) = 0) \/ pct.raised,
         crashProtectionSymbol |-> crashProtectionSymbol,
         topMomentumSymbols |-> topMomentumSymbols,
         canarySymbols |-> canarySymbols,
         calculations |-> acc.calculations,
         lastActiveSymbols |-> acc.lastActiveSymbols,
         pctAggressive |-> pct.value,
         columns |-> columns]

\* lines 145-168 of CreateTargets on the optimizer's answer
PcmWeights(pre, outcome) ==
    IF outcome.kind = "raise"
    THEN [raised |-> TRUE, optWeights |-> <<>>, targets |-> <<>>]
    ELSE LET dtp == DetermineTargetPercent(pre.columns, outcome, pre.crashProtectionSymbol)
         IN  IF dtp.raised
             THEN [raised |-> TRUE, optWeights |-> <<>>, targets |-> <<>>]
             ELSE IF AnyNull(dtp.weights)
             THEN [raised |-> FALSE, optWeights |-> dtp.weights, targets |-> <<>>]
             ELSE LET e == EmitTargets(pre.lastActiveSymbols, 1,
                               ScaleWeights(dtp.weights, pre.pctAggressive),
                               pre.crashProtectionSymbol, pre.pctAggressive, <<>>)
                  IN  [raised |-> e.raised, optWeights |-> dtp.weights,
                       targets |-> e.targets]

----------------------------------------------------------------------------
(* State *)

NoHistory == [s \in Universe |-> Unasked]

NoAlphaCycle ==
    [fired |-> FALSE, completed |-> FALSE, calculations |-> <<>>,
     canarySymbols |-> <<>>, topK |-> <<>>, pctAggressive |-> NaNRat]

NoPcmCycle ==
    [ran |-> FALSE, fastPath |-> FALSE, fired |-> FALSE, completed |-> FALSE,
     activeSymbols |-> <<>>, lastActiveSymbols |-> <<>>, canarySymbols |-> <<>>,
     calculations |-> <<>>, pctAggressive |-> NaNRat, columns |-> <<>>,
     optWeights |-> <<>>, stdZero |-> FALSE, expiredSymbols |-> <<>>]

pipelineVars ==
    <<now, pc, activeSecurities, history, topMomentum, securities,
      topMomentumSecurities, alphaRebalancingTime, alphaCycle, dataOrInvested,
      insights, insightCollection, nextExpiryTime, pcmRebalancingTime, pcmCycle,
      targets>>
scoreVars == <<scClose, scAlpha, scPcm, scReturns, scDone>>
storeVars == <<stStore, stTime, stPhase, stActive, stLast, stRemoved, stBefore>>
universeVars == <<ucLast>>
harnessVars == <<scoreVars, storeVars, universeVars>>
vars == <<pipelineVars, harnessVars>>

\* the two models as main.py constructs them, before the first event
InitPipeline ==
    /\ now = 0
    /\ pc = "done"
    /\ activeSecurities = <<>>
    /\ history = NoHistory
    /\ topMomentum \in 1..MaxTopMomentum
    /\ securities = <<>>
    /\ topMomentumSecurities = <<>>
    /\ alphaRebalancingTime = None
    /\ alphaCycle = NoAlphaCycle
    /\ dataOrInvested = {}
    /\ insights = <<>>
    /\ insightCollection = <<>>
    /\ nextExpiryTime = UTCMAX
    /\ pcmRebalancingTime = None
    /\ pcmCycle = NoPcmCycle
    /\ targets = <<>>

StoreIdle ==
    /\ stStore = <<>>
    /\ stTime = 0
    /\ stPhase = "idle"
    /\ stActive = <<>>
    /\ stLast = <<>>
    /\ stRemoved = <<>>
    /\ stBefore = <<>>

NoChanges == [added |-> <<>>, removed |-> <<>>]

UniverseIdle == ucLast = NoChanges

ScoreIdle ==
    /\ scClose = <<>>
    /\ scAlpha = NaNRat
    /\ scPcm = NaNRat
    /\ scReturns = <<>>
    /\ scDone = FALSE

HarnessIdle == ScoreIdle /\ StoreIdle /\ UniverseIdle

Init == InitPipeline /\ HarnessIdle

----------------------------------------------------------------------------
(* Events of the host framework *)

\* lines 183-186: every removed security that is in the list loses its
\* first occurrence
RECURSIVE RemoveAll(_, _, _)
RemoveAll(list, removed, i) ==
    IF i > Len(removed) THEN list
    ELSE RemoveAll(RemoveFirst(list, removed[i]), removed, i + 1)

\* lines 179-186: self.securities after the added securities are appended
\* and the removed ones removed
SecuritiesAfterChanges(list, added, removed) == RemoveAll(list \o added, removed, 1)

\* OnSecuritiesChanged with the additions of the manual universe selection
\* (all of main.py's symbols, once, before the first data step)
OnSecuritiesChanged ==
    /\ pc = "done"
    /\ activeSecurities = <<>>
    /\ activeSecurities' = AllTickers
    /\ securities' = SecuritiesAfterChanges(securities, AllTickers, <<>>)
    /\ UNCHANGED <<now, pc, history, topMomentum, topMomentumSecurities,
                   alphaRebalancingTime, alphaCycle, dataOrInvested, insights,
                   insightCollection, nextExpiryTime, pcmRebalancingTime, pcmCycle,
                   targets>>
    /\ UNCHANGED harnessVars

\* the host's next time step: the clock moves on and the step's locals,
\* the provider's table and the returned lists of the last step are gone
Tick ==
    /\ pc = "done"
    /\ activeSecurities # <<>>
    /\ \E d \in 1..MaxStep :
        /\ now + d <= MaxTime
        /\ now' = now + d
    /\ pc' = "update"
    /\ history' = NoHistory
    /\ alphaCycle' = NoAlphaCycle
    /\ pcmCycle' = NoPcmCycle
    /\ dataOrInvested' = {}
    /\ insights' = <<>>
    /\ targets' = <<>>
    /\ UNCHANGED <<activeSecurities, topMomentum, securities, topMomentumSecurities,
                   alphaRebalancingTime, insightCollection, nextExpiryTime,
                   pcmRebalancingTime>>
    /\ UNCHANGED harnessVars

\* algorithm.History(symbols, 253, Resolution.Daily) at the current time: the
\* provider answers for the requested symbols, and answers the same for a
\* symbol requested twice at one time
FetchHistory(symbols) ==
    LET unasked == {s \in symbols : history[s] = Unasked}
    IN  IF unasked = {} THEN {history}
        ELSE {[s \in Universe |-> IF s \in unasked THEN t[s] ELSE history[s]] :
                 t \in Tables}

\* LongOnlyMomentumAlphaCreationModel.Update
Update ==
    /\ pc = "update"
    /\ LET rt == IF alphaRebalancingTime = None THEN rebalancingPeriod(now)
                 ELSE alphaRebalancingTime
       IN  IF now >= rt
           THEN \E h \in FetchHistory(Range(AlphaAllSymbols(securities))) :
                LET r == AlphaRebalance(securities, h, topMomentum)
                IN  /\ history' = h
                    /\ topMomentumSecurities' = r.top
                    /\ alphaCycle' = [r.locals EXCEPT !.completed = ~r.raised]
                    /\ IF r.raised
                       THEN /\ pc' = "failed"
                            /\ alphaRebalancingTime' = rt
                            /\ dataOrInvested' = {}
                            /\ insights' = <<>>
                       ELSE /\ pc' = "targets"
                            /\ alphaRebalancingTime' = rebalancingPeriod(now)
                            /\ \E hasDataOrInvested \in SUBSET Range(r.top) :
                                 /\ dataOrInvested' = hasDataOrInvested
                                 /\ insights' = GenerateInsights(r.top, hasDataOrInvested, now)
           ELSE /\ alphaRebalancingTime' = rt
                /\ pc' = "targets"
                /\ \E hasDataOrInvested \in SUBSET Range(topMomentumSecurities) :
                     /\ dataOrInvested' = hasDataOrInvested
                     /\ insights' = GenerateInsights(topMomentumSecurities,
                                                      hasDataOrInvested, now)
                /\ UNCHANGED <<history, topMomentumSecurities, alphaCycle>>
    /\ UNCHANGED <<now, activeSecurities, topMomentum, securities, insightCollection,
                   nextExpiryTime, pcmRebalancingTime, pcmCycle, targets>>
    /\ UNCHANGED harnessVars

\* lines 172-188 of CreateTargets: purge, flatten targets, next expiry time
FinishTargets(store, weightTargets) ==
    LET expiredInsights == ExpiredInsights(store, now)
        kept == WithoutExpired(store, now)
    IN  /\ insightCollection' = kept
        /\ targets' = weightTargets \o ExpiredTargets(expiredInsights, kept, now)
        /\ nextExpiryTime' = NextExpiryTimeUpdate(kept)
        /\ pc' = "done"

\* an exception raised in lines 92-168 leaves CreateTargets there: lines
\* 172-188 are not run, nothing is returned and nothing done so far (line 71,
\* line 203) is undone (and a step that restores the store it started with)
AbortTargetsRestoring(store) ==
    /\ pc' = "failed"
    /\ insightCollection' = insightCollection
    /\ targets' = <<>>
    /\ UNCHANGED nextExpiryTime
AbortTargets(store) ==
    /\ pc' = "failed"
    /\ insightCollection' = store
    /\ targets' = <<>>
    /\ UNCHANGED nextExpiryTime

\* OptimizationPortfolioConstructionModel.CreateTargets
CreateTargets ==
    /\ pc = "targets"
    /\ LET rt == IF pcmRebalancingTime = None THEN rebalancingPeriod(now)
                 ELSE pcmRebalancingTime
       IN  IF NothingNew(insights, now, nextExpiryTime)
           THEN /\ pcmRebalancingTime' = rt
                /\ targets' = <<>>
                /\ pc' = "done"
                /\ pcmCycle' = [NoPcmCycle EXCEPT !.ran = TRUE, !.fastPath = TRUE,
                                                  !.completed = TRUE]
                /\ UNCHANGED <<insightCollection, nextExpiryTime, history>>
           ELSE LET store == StoreAddAll(insightCollection, insights, 1)
                    activeInsights == GetActiveInsights(store, now)
                    lastActiveInsights == LastActiveInsights(activeInsights)
                    lastActiveSymbols == Symbols(lastActiveInsights)
                IN  IF ShouldCreateTargets(now, rt, lastActiveSymbols)
                    THEN \E h \in FetchHistory(Range(PcmAllSymbols(lastActiveSymbols,
                                                       activeSecurities, topMomentum))) :
                         LET pre == PcmPrepare(lastActiveSymbols, activeSecurities,
                                               h, topMomentum)
                         IN  /\ history' = h
                             /\ pcmRebalancingTime' = rebalancingPeriod(now)
                             /\ \E outcome \in (IF pre.raised
                                                THEN {[kind |-> "raise", x |-> <<>>,
                                                       stdZero |-> FALSE]}
                                                ELSE OptimizeOutcomes(Len(pre.columns))) :
                                LET w == PcmWeights(pre, outcome)
                                    cycle == [ran |-> TRUE, fastPath |-> FALSE,
                                              fired |-> TRUE,
                                              completed |-> ~(pre.raised \/ w.raised),
                                              activeSymbols |-> lastActiveSymbols,
                                              lastActiveSymbols |-> pre.lastActiveSymbols,
                                              canarySymbols |-> pre.canarySymbols,
                                              calculations |-> pre.calculations,
                                              pctAggressive |-> pre.pctAggressive,
                                              columns |-> pre.columns,
                                              optWeights |-> w.optWeights,
                                              stdZero |-> outcome.stdZero,
                                              expiredSymbols |->
                                                  IF pre.raised \/ w.raised THEN <<>>
                                                  ELSE Symbols(ExpiredInsights(store, now))]
                                IN  /\ pcmCycle' = cycle
                                    /\ IF pre.raised \/ w.raised
                                       THEN AbortTargets(store)
                                       ELSE FinishTargets(store, w.targets)
                    ELSE /\ pcmRebalancingTime' = rt
                         /\ pcmCycle' = [NoPcmCycle EXCEPT !.ran = TRUE,
                                            !.completed = TRUE,
                                            !.activeSymbols = lastActiveSymbols,
                                            !.lastActiveSymbols = lastActiveSymbols,
                                            !.expiredSymbols =
                                                Symbols(ExpiredInsights(store, now))]
                         /\ FinishTargets(store, <<>>)
                         /\ UNCHANGED history
    /\ UNCHANGED <<now, activeSecurities, topMomentum, securities,
                   topMomentumSecurities, alphaRebalancingTime, alphaCycle,
                   dataOrInvested, insights>>
    /\ UNCHANGED harnessVars

Next == OnSecuritiesChanged \/ Tick \/ Update \/ CreateTargets

Spec == Init /\ [][Next]_vars

----------------------------------------------------------------------------
(* Selection harness: Update at a rebalance time, on every table of the    *)
(* wide feed, for every topMomentum and over an old selection              *)

OldSelections == {<<>>, <<"VGK", "IEF">>}

InitAlpha ==
    /\ now = PeriodTicks
    /\ pc = "update"
    /\ activeSecurities = AllTickers
    /\ history \in WideTables
    /\ topMomentum \in 1..MaxTopMomentum
    /\ securities = AllTickers
    /\ topMomentumSecurities \in OldSelections
    /\ alphaRebalancingTime = rebalancingPeriod(0)
    /\ alphaCycle = NoAlphaCycle
    /\ dataOrInvested = {}
    /\ insights = <<>>
    /\ insightCollection = <<>>
    /\ nextExpiryTime = UTCMAX
    /\ pcmRebalancingTime = rebalancingPeriod(0)
    /\ pcmCycle = NoPcmCycle
    /\ targets = <<>>
    /\ HarnessIdle

NextAlpha == Update

SpecAlpha == InitAlpha /\ [][NextAlpha]_vars

----------------------------------------------------------------------------
(* Second period harness: the first step of the period after the one in    *)
(* which the old selection was made; the store holds the signals of the    *)
(* step before, which closed at this step's time                           *)

SecondPeriod == 2 * PeriodTicks

InitSecond ==
    /\ now = SecondPeriod
    /\ pc = "update"
    /\ activeSecurities = AllTickers
    /\ history = NoHistory
    /\ topMomentum \in 1..MaxTopMomentum
    /\ securities = AllTickers
    /\ topMomentumSecurities = <<"VGK", "IEF">>
    /\ alphaRebalancingTime = SecondPeriod
    /\ alphaCycle = NoAlphaCycle
    /\ dataOrInvested = {}
    /\ insights = <<>>
    /\ \E had \in (SUBSET Range(topMomentumSecurities)) \ {{}} :
         insightCollection = GenerateInsights(topMomentumSecurities, had, SecondPeriod - 1)
    /\ nextExpiryTime = NextExpiryTimeUpdate(insightCollection)
    /\ pcmRebalancingTime = SecondPeriod
    /\ pcmCycle = NoPcmCycle
    /\ targets = <<>>
    /\ HarnessIdle

NextSecond == Update \/ CreateTargets

SpecSecond == InitSecond /\ [][NextSecond]_vars

----------------------------------------------------------------------------
(* Steps between two rebalances: the step at the start of the period has   *)
(* selected, emitted signals for the selected instruments with data and    *)
(* computed weights; the steps up to the end of the clock follow, under    *)
(* the host's schedule                                                     *)

InitBetween ==
    /\ now = PeriodTicks
    /\ pc = "done"
    /\ activeSecurities = AllTickers
    /\ history = NoHistory
    /\ topMomentum \in 1..MaxTopMomentum
    /\ securities = AllTickers
    /\ topMomentumSecurities = <<"VGK", "IEF">>
    /\ alphaRebalancingTime = rebalancingPeriod(PeriodTicks)
    /\ alphaCycle = NoAlphaCycle
    /\ dataOrInvested \in (SUBSET Range(topMomentumSecurities)) \ {{}}
    /\ insights = GenerateInsights(topMomentumSecurities, dataOrInvested, PeriodTicks)
    /\ insightCollection = insights
    /\ nextExpiryTime = NextExpiryTimeUpdate(insightCollection)
    /\ pcmRebalancingTime = rebalancingPeriod(PeriodTicks)
    /\ pcmCycle = NoPcmCycle
    /\ targets = <<>>
    /\ HarnessIdle

NextBetween == Tick \/ Update \/ CreateTargets

\* the host calls Update and CreateTargets in every step and, while market
\* time is left, starts a next step
SpecBetween ==
    InitBetween /\ [][NextBetween]_vars
        /\ WF_vars(Tick) /\ WF_vars(Update) /\ WF_vars(CreateTargets)

----------------------------------------------------------------------------
(* Scorer harness: both copies of CalculateMomentumScore on one column *)

InitScore ==
    /\ InitPipeline
    /\ scClose \in {CloseOf(len, lv) : len \in ColumnLengths, lv \in Levels}
    /\ scAlpha = NaNRat
    /\ scPcm = NaNRat
    /\ scReturns = <<>>
    /\ scDone = FALSE
    /\ StoreIdle
    /\ UniverseIdle

ScoreColumn ==
    /\ ~scDone
    /\ scDone' = TRUE
    /\ scAlpha' = AlphaCalculateMomentumScore(scClose)
    /\ scPcm' = PcmCalculateMomentumScore(scClose).momentumScore
    /\ scReturns' = PcmCalculateMomentumScore(scClose).returnSeries
    /\ UNCHANGED scClose
    /\ UNCHANGED pipelineVars
    /\ UNCHANGED <<storeVars, universeVars>>

NextScore == ScoreColumn

SpecScore == InitScore /\ [][NextScore]_vars

----------------------------------------------------------------------------
(* Store harness: lines 74-79 and line 173 of CreateTargets as functions   *)
(* of what the InsightCollection holds.  The stores drawn here are wider   *)
(* than the pipeline's: insights of two durations, in any order of arrival *)
(* and any number per symbol, as Add admits them.                          *)

\* the longest store drawn
MaxStoreLen == 3

StoreSymbols == {riskyTickers[1], crashProtectionTicker[1]}
StoreGenerated == {0, 1}
StoreDurations == {insightExpiry, 2 * insightExpiry}
StoreTimes == 0..3

StoreInsights ==
    {[Symbol |-> s, Direction |-> "Up", GeneratedTimeUtc |-> g, CloseTimeUtc |-> g + d] :
        s \in StoreSymbols, g \in StoreGenerated, d \in StoreDurations}

Stores == UNION {[1..n -> StoreInsights] : n \in 0..MaxStoreLen}

InitStore ==
    /\ InitPipeline
    /\ ScoreIdle
    /\ UniverseIdle
    /\ stStore \in Stores
    /\ stTime \in StoreTimes
    /\ stPhase = "held"
    /\ stActive = <<>>
    /\ stLast = <<>>
    /\ stRemoved = <<>>
    /\ stBefore = <<>>

\* lines 74-79: activeInsights and lastActiveInsights
StoreActive ==
    /\ stPhase = "held"
    /\ stPhase' = "active"
    /\ stActive' = GetActiveInsights(stStore, stTime)
    /\ stLast' = LastActiveInsights(GetActiveInsights(stStore, stTime))
    /\ UNCHANGED <<stStore, stTime, stRemoved, stBefore>>
    /\ UNCHANGED <<pipelineVars, scoreVars, universeVars>>

\* line 173: expiredInsights = self.insightCollection.RemoveExpiredInsights(T),
\* called once and then once more at the same time
StorePurge ==
    /\ stPhase \in {"active", "purged"}
    /\ stPhase' = IF stPhase = "active" THEN "purged" ELSE "purged twice"
    /\ stBefore' = Append(stBefore, stStore)
    /\ stRemoved' = Append(stRemoved, ExpiredInsights(stStore, stTime))
    /\ stStore' = WithoutExpired(stStore, stTime)
    /\ UNCHANGED <<stTime, stActive, stLast>>
    /\ UNCHANGED <<pipelineVars, scoreVars, universeVars>>

NextStore == StoreActive \/ StorePurge

SpecStore == InitStore /\ [][NextStore]_vars

----------------------------------------------------------------------------
(* Universe harness: OnSecuritiesChanged of the Alpha model on any         *)
(* sequence of changes over two symbols, the same changes twice included   *)

\* the longest self.securities followed
MaxSecurities == 4

ChangedSymbols == {riskyTickers[1], crashProtectionTicker[1]}

\* AddedSecurities / RemovedSecurities: lists without repetition
Deliveries ==
    {<<>>} \cup {<<a>> : a \in ChangedSymbols}
        \cup {d \in {<<a, b>> : a \in ChangedSymbols, b \in ChangedSymbols} : d[1] # d[2]}

Changes ==
    {c \in [added : Deliveries, removed : Deliveries] :
        Range(c.added) \cap Range(c.removed) = {}}

InitUniverse ==
    /\ InitPipeline
    /\ ScoreIdle
    /\ StoreIdle
    /\ UniverseIdle

\* LongOnlyMomentumAlphaCreationModel.OnSecuritiesChanged(algorithm, changes)
DeliverChanges ==
    /\ \E c \in Changes :
          /\ Len(securities) + Len(c.added) <= MaxSecurities
          /\ securities' = SecuritiesAfterChanges(securities, c.added, c.removed)
          /\ ucLast' = c
    /\ UNCHANGED <<now, pc, activeSecurities, history, topMomentum,
                   topMomentumSecurities, alphaRebalancingTime, alphaCycle,
                   dataOrInvested, insights, insightCollection, nextExpiryTime,
                   pcmRebalancingTime, pcmCycle, targets>>
    /\ UNCHANGED <<scoreVars, storeVars>>

NextUniverse == DeliverChanges

SpecUniverse == InitUniverse /\ [][NextUniverse]_vars

----------------------------------------------------------------------------
(* The pipeline with a security leaving the universe *)

\* OnSecuritiesChanged with one removed security, which the framework has
\* taken out of ActiveSecurities; at most one security leaves, a risky one
\* or the crash protection one
OnSecurityRemoved ==
    /\ pc = "done"
    /\ Len(activeSecurities) = Len(AllTickers)
    /\ \E s \in ChangedSymbols :
          /\ securities' = SecuritiesAfterChanges(securities, <<>>, <<s>>)
          /\ activeSecurities' = RemoveFirst(activeSecurities, s)
    /\ UNCHANGED <<now, pc, history, topMomentum, topMomentumSecurities,
                   alphaRebalancingTime, alphaCycle, dataOrInvested, insights,
                   insightCollection, nextExpiryTime, pcmRebalancingTime, pcmCycle,
                   targets>>
    /\ UNCHANGED harnessVars

NextRemoval ==
    OnSecuritiesChanged \/ OnSecurityRemoved \/ Tick \/ Update \/ CreateTargets

SpecRemoval == Init /\ [][NextRemoval]_vars

----------------------------------------------------------------------------
(* Properties of the selection (Alpha) *)

crashProtection == crashProtectionTicker[1]

\* a selection cycle of Update has run to its end in this step
SelectionCycle == alphaCycle.fired /\ alphaCycle.completed

\* the score of a symbol in the cycle's calculations
AlphaHasPositiveScore(s) ==
    /\ DictHas(alphaCycle.calculations, s)
    /\ DictGet(alphaCycle.calculations, s)[1] > 0

AlphaRelevant == Range(riskyTickers) \cup Range(crashProtectionTicker)

AlphaPositive == {s \in AlphaRelevant : AlphaHasPositiveScore(s)}

EnumerationIndex(s) ==
    CHOOSE i \in DOMAIN alphaCycle.calculations : alphaCycle.calculations[i].Symbol = s

PctIsMid ==
    /\ RatLess(RatZero, alphaCycle.pctAggressive)
    /\ RatLess(alphaCycle.pctAggressive, RatOne)

\* C1: after a selection cycle has completed, the candidate set holds no
\* instrument whose momentum score of that cycle is <= 0 (or that has no
\* score), unless that instrument is the crash protection asset in a cycle
\* where injection applies (aggressive fraction below 1).
C1_CandidatesHavePositiveScore ==
    SelectionCycle =>
        \A i \in DOMAIN topMomentumSecurities :
            \/ AlphaHasPositiveScore(topMomentumSecurities[i])
            \/ /\ topMomentumSecurities[i] = crashProtection
               /\ RatLess(alphaCycle.pctAggressive, RatOne)

\* a completed cycle in which a relevant instrument with a score <= 0 was
\* left out, top instruments were kept and the crash protection asset injected
C1_Witness ==
    /\ SelectionCycle
    /\ \E s \in AlphaRelevant :
          /\ DictHas(alphaCycle.calculations, s)
          /\ DictGet(alphaCycle.calculations, s)[1] <= 0
          /\ ~InList(s, topMomentumSecurities)
    /\ Len(alphaCycle.topK) > 0
    /\ InList(crashProtection, topMomentumSecurities)
    /\ ~InList(crashProtection, alphaCycle.topK)

\* C2: the relative momentum filter selects exactly min(K, number of
\* positive-score relevant instruments) of them, each once; no unselected
\* positive-score instrument has a strictly higher score than a selected one;
\* instruments of equal score keep their enumeration order, in the result and
\* at the cut.
C2_TopKByScoreStable ==
    alphaCycle.fired =>
        LET sel == alphaCycle.topK
            score(s) == DictGet(alphaCycle.calculations, s)
        IN  /\ Len(sel) = Min(topMomentum, Cardinality(AlphaPositive))
            /\ \A i \in DOMAIN sel : sel[i] \in AlphaPositive
            /\ \A i, j \in DOMAIN sel : i # j => sel[i] # sel[j]
            /\ \A s \in AlphaPositive \ Range(sel) : \A i \in DOMAIN sel :
                  /\ ~RatLess(score(sel[i]), score(s))
                  /\ score(s) = score(sel[i])
                        => EnumerationIndex(sel[i]) < EnumerationIndex(s)
            /\ \A i, j \in DOMAIN sel :
                  (i < j /\ score(sel[i]) = score(sel[j]))
                      => EnumerationIndex(sel[i]) < EnumerationIndex(sel[j])

\* more positive instruments than K, with a tie across the cut
C2_Witness ==
    /\ alphaCycle.fired
    /\ Cardinality(AlphaPositive) > topMomentum
    /\ \E s \in AlphaPositive \ Range(alphaCycle.topK) :
          \E i \in DOMAIN alphaCycle.topK :
              DictGet(alphaCycle.calculations, s)
                  = DictGet(alphaCycle.calculations, alphaCycle.topK[i])
    /\ \E s \in AlphaPositive \ Range(alphaCycle.topK) :
          \E i \in DOMAIN alphaCycle.topK :
              RatLess(DictGet(alphaCycle.calculations, s),
                      DictGet(alphaCycle.calculations, alphaCycle.topK[i]))

\* C4: in a completed cycle whose aggressive fraction is strictly between 0
\* and 1, the crash protection asset is in the candidate set iff its score is
\* positive; it is appended to the top K only when positive and not already
\* among them, so the set has at most K + 1 members and holds it at most once.
C4_PartialInjection ==
    (SelectionCycle /\ PctIsMid) =>
        /\ InList(crashProtection, topMomentumSecurities)
              <=> AlphaHasPositiveScore(crashProtection)
        /\ topMomentumSecurities =
              (IF /\ AlphaHasPositiveScore(crashProtection)
                  /\ ~InList(crashProtection, alphaCycle.topK)
               THEN Append(alphaCycle.topK, crashProtection)
               ELSE alphaCycle.topK)
        /\ Len(topMomentumSecurities) <= topMomentum + 1
        /\ Cardinality({i \in DOMAIN topMomentumSecurities :
                           topMomentumSecurities[i] = crashProtection}) <= 1

\* K risky instruments selected and the crash protection asset appended
C4_Witness ==
    /\ SelectionCycle
    /\ PctIsMid
    /\ Len(alphaCycle.topK) = topMomentum
    /\ Len(topMomentumSecurities) = topMomentum + 1
    /\ topMomentumSecurities[topMomentum + 1] = crashProtection

----------------------------------------------------------------------------
(* Properties of the regime gate, the scorer and the emitted weights *)

WeightTargets == SelectSeq(targets, LAMBDA t : t.kind = "weight")

\* C3: when the aggressive fraction of a completed selection cycle is 0, the
\* candidate list is the crash protection asset alone if its score is
\* positive and empty otherwise, whatever the risky scores; the targets of
\* that step give a non-zero weight to no other instrument.
C3_DefensiveCycle ==
    (SelectionCycle /\ alphaCycle.pctAggressive = RatZero) =>
        /\ topMomentumSecurities =
              (IF AlphaHasPositiveScore(crashProtection) THEN <<crashProtection>>
               ELSE <<>>)
        /\ pc = "done" =>
              \A i \in DOMAIN targets :
                  targets[i].weight # RatZero => targets[i].Symbol = crashProtection

\* a step with fraction 0 and a positive risky instrument, ended with the
\* whole weight on the crash protection asset
C3_Witness ==
    /\ pc = "done"
    /\ SelectionCycle
    /\ alphaCycle.pctAggressive = RatZero
    /\ \E s \in Range(riskyTickers) : AlphaHasPositiveScore(s)
    /\ pcmCycle.fired
    /\ WeightTargets = <<PortfolioTarget(crashProtection, RatOne, "weight")>>

\* C5: when the aggressive fraction of a completed selection cycle is 1, the
\* candidate list is the top K unchanged; when the fraction of a completed
\* weight computation is 1, every weight target carries the optimizer's
\* weight of its instrument, unscaled and with nothing added.
C5_AggressiveCycle ==
    /\ (SelectionCycle /\ alphaCycle.pctAggressive = RatOne)
          => topMomentumSecurities = alphaCycle.topK
    /\ (pc = "done" /\ pcmCycle.fired /\ pcmCycle.pctAggressive = RatOne) =>
          \A i \in DOMAIN WeightTargets :
              /\ HasWeight(pcmCycle.optWeights, WeightTargets[i].Symbol)
              /\ WeightTargets[i].weight
                    = WeightOf(pcmCycle.optWeights, WeightTargets[i].Symbol)

\* fraction 1 in both models, the crash protection asset positive but
\* outranked (so not a candidate), and a weight target below the full weight
C5_Witness ==
    /\ pc = "done"
    /\ SelectionCycle
    /\ alphaCycle.pctAggressive = RatOne
    /\ AlphaHasPositiveScore(crashProtection)
    /\ ~InList(crashProtection, topMomentumSecurities)
    /\ pcmCycle.fired
    /\ pcmCycle.pctAggressive = RatOne
    /\ \E i \in DOMAIN WeightTargets :
          /\ WeightTargets[i].weight # RatZero
          /\ WeightTargets[i].weight # RatOne

PositiveCanaries(calculations, canarySymbols) ==
    {i \in DOMAIN canarySymbols :
        /\ DictHas(calculations, canarySymbols[i])
        /\ DictGet(calculations, canarySymbols[i])[1] > 0}

Fractions(n) == {Rat(k, n) : k \in 0..n}

\* C6: for a non-empty list of n canaries, both copies of
\* CalculatePctAggressive return (number of canaries with a score > 0) / n,
\* one of 0, 1/n, ..., 1; a canary absent from the calculations counts in n only.
C6_PctAggressive ==
    /\ (alphaCycle.fired /\ Len(alphaCycle.canarySymbols) > 0) =>
          /\ alphaCycle.pctAggressive =
                Rat(Cardinality(PositiveCanaries(alphaCycle.calculations,
                                                 alphaCycle.canarySymbols)),
                    Len(alphaCycle.canarySymbols))
          /\ alphaCycle.pctAggressive \in Fractions(Len(alphaCycle.canarySymbols))
    /\ (pcmCycle.fired /\ Len(pcmCycle.canarySymbols) > 0) =>
          /\ pcmCycle.pctAggressive =
                Rat(Cardinality(PositiveCanaries(pcmCycle.calculations,
                                                 pcmCycle.canarySymbols)),
                    Len(pcmCycle.canarySymbols))
          /\ pcmCycle.pctAggressive \in Fractions(Len(pcmCycle.canarySymbols))

\* two canaries, one positive and one without a score: one half in both models
C6_Witness ==
    /\ alphaCycle.fired
    /\ pcmCycle.fired
    /\ Len(alphaCycle.canarySymbols) = 2
    /\ \E i \in DOMAIN alphaCycle.canarySymbols :
          ~DictHas(alphaCycle.calculations, alphaCycle.canarySymbols[i])
    /\ alphaCycle.pctAggressive = Rat(1, 2)
    /\ pcmCycle.pctAggressive = Rat(1, 2)

\* the compounded return over the last n returns of the column, by
\* telescoping: prod(1 + r) over bars L-m+1..L is close[L] / close[L-m],
\* where m is n or, for a shorter series, all of its L-1 returns
CompoundedReturn(close, n) ==
    LET m == Min(n, Len(close) - 1)
    IN  Rat(close[Len(close)] - close[Len(close) - m], close[Len(close) - m])

ExpectedScore(close) ==
    RatAdd(RatAdd(RatAdd(RatScale(CompoundedReturn(close, 21), 12),
                         RatScale(CompoundedReturn(close, 63), 4)),
                  RatScale(CompoundedReturn(close, 126), 2)),
           CompoundedReturn(close, 252))

\* C7: on any close column without gaps the score is 12*R1 + 4*R3 + 2*R6 + R12
\* with Rk the compounded return over the last 21/63/126/252 returns (the
\* whole series when it is shorter), and both copies of the scorer agree.
C7_MomentumScore ==
    scDone =>
        /\ scAlpha = ExpectedScore(scClose)
        /\ scPcm = scAlpha

\* a full column that rises and falls back, where summing the returns would
\* give another score than compounding them
C7_Witness ==
    /\ scDone
    /\ Len(scClose) = HistoryBars
    /\ scAlpha # AlphaScoreSummed(scClose)
    /\ scPcm = scAlpha
    /\ \E i \in 2..Len(scClose) : scClose[i] < scClose[i - 1]
    /\ \E i \in 2..Len(scClose) : scClose[i] > scClose[i - 1]

----------------------------------------------------------------------------
(* Properties of the rebalance schedule and the expiry bookkeeping *)

\* the call of CreateTargets about to run gets past the test of line 66
PastFastPath == ~(Len(insights) = 0 /\ now <= nextExpiryTime)

\* an insight held or arriving is active at the current time
SomeActiveInsight ==
    \E x \in Range(insightCollection) \cup Range(insights) : IsActive(x, now)

RebalanceDue == pcmRebalancingTime # None /\ now >= pcmRebalancingTime

\* the rebalance time as CreateTargets sees it behind lines 59-61
EffectiveRebalancingTime ==
    IF pc = "targets" /\ pcmRebalancingTime = None THEN rebalancingPeriod(now)
    ELSE pcmRebalancingTime

\* C8 as stated: at every call of CreateTargets at a time >= the next
\* rebalance time, weight targets are emitted and the next rebalance time is
\* advanced with the period function; it changes at no other step (the
\* first call, which sets it, aside).
C8_RebalanceAtEveryDueStep ==
    [][/\ (pc = "targets" /\ RebalanceDue) =>
             /\ WeightTargets' # <<>>
             /\ pcmRebalancingTime' = rebalancingPeriod(now)
       /\ ~(pc = "targets" /\ RebalanceDue) =>
             pcmRebalancingTime' = EffectiveRebalancingTime]_vars

\* C8: a call of CreateTargets at a time >= the next rebalance time that gets
\* past the fast path and has an active insight advances the next rebalance
\* time with the period function, also when the computation then fails, and,
\* when it ends with optimizer weights free of null values, emits one weight
\* target per active symbol that has data (the framework building a target
\* for each); every other step emits no weight
\* target and leaves the next rebalance time alone, but for the first call,
\* which sets it to the end of the current period.
C8_RebalanceWhenDueAndActive ==
    [][IF pc = "targets" /\ RebalanceDue /\ PastFastPath /\ SomeActiveInsight
       THEN /\ pcmRebalancingTime' = rebalancingPeriod(now)
            /\ pcmRebalancingTime' > now
            /\ (pc' = "done" /\ ~AnyNull(pcmCycle'.optWeights)) =>
                  /\ WeightTargets' # <<>>
                  /\ Symbols(WeightTargets') = pcmCycle'.lastActiveSymbols
            /\ (pc' # "done" \/ AnyNull(pcmCycle'.optWeights)) => WeightTargets' = <<>>
       ELSE /\ pcmRebalancingTime' = EffectiveRebalancingTime
            /\ WeightTargets' = <<>>]_vars

\* a due call with active insights has advanced the rebalance time and
\* emitted weight targets
C8_Witness ==
    /\ pc = "done"
    /\ pcmCycle.fired
    /\ pcmCycle.completed
    /\ WeightTargets # <<>>
    /\ pcmRebalancingTime = rebalancingPeriod(now)

\* C9: a call of CreateTargets with no new insight at a time not after the
\* stored next expiry time returns no target and leaves the store and the
\* next expiry time as they are (and a rebalance time already set as well),
\* also at a time >= the next rebalance time.
C9_FastPathNoOp ==
    [][(pc = "targets" /\ Len(insights) = 0 /\ now <= nextExpiryTime) =>
          /\ pc' = "done"
          /\ targets' = <<>>
          /\ insightCollection' = insightCollection
          /\ nextExpiryTime' = nextExpiryTime
          /\ pcmRebalancingTime' = EffectiveRebalancingTime]_vars

\* the fast path was taken at a time >= the next rebalance time
C9_Witness ==
    /\ pc = "done"
    /\ pcmCycle.fastPath
    /\ RebalanceDue
    /\ targets = <<>>

EarliestExpiry ==
    CHOOSE t \in {insightCollection[i].CloseTimeUtc : i \in DOMAIN insightCollection} :
        \A i \in DOMAIN insightCollection : t <= insightCollection[i].CloseTimeUtc

\* C10 as stated: after every call of CreateTargets the next expiry time is
\* the earliest expiry held in the store, or the far-future sentinel when
\* the store is empty.
C10_FarFutureWhenEmpty ==
    (pc = "done" /\ pcmCycle.ran) =>
        nextExpiryTime = (IF insightCollection = <<>> THEN UTCMAX ELSE EarliestExpiry)

\* C10: after every call of CreateTargets that returns, the next expiry time
\* is the earliest expiry held in the store; when the store is empty it is
\* the far-future sentinel if the call returned on the fast path (no call
\* has got past it yet) and the far-past sentinel UTCMIN otherwise.
C10_NextExpiryTime ==
    (pc = "done" /\ pcmCycle.ran) =>
        nextExpiryTime =
            (IF insightCollection # <<>> THEN EarliestExpiry
             ELSE IF pcmCycle.fastPath THEN UTCMAX
             ELSE UTCMIN)

\* the last insights have been purged: the store is empty behind a call that
\* got past the fast path and flattened a position
C10_Witness ==
    /\ pc = "done"
    /\ pcmCycle.ran
    /\ ~pcmCycle.fastPath
    /\ insightCollection = <<>>
    /\ \E i \in DOMAIN targets : targets[i].kind = "flatten"
    /\ nextExpiryTime = UTCMIN

----------------------------------------------------------------------------
(* Claims about the store's queries, under SpecStore *)

Occurrences(list, x) == Cardinality({i \in DOMAIN list : list[i] = x})

\* the window of a held insight, read off its two time stamps
InWindow(x, time) == x.GeneratedTimeUtc <= time /\ time < x.CloseTimeUtc

C14_LastPerInstrument ==
    stPhase = "active" =>
        /\ \A i, j \in DOMAIN stLast : i # j => stLast[i].Symbol # stLast[j].Symbol
        /\ \A s \in Universe :
              (\E i \in DOMAIN stLast : stLast[i].Symbol = s)
                  <=> (\E k \in DOMAIN stStore :
                          stStore[k].Symbol = s /\ InWindow(stStore[k], stTime))
        /\ \A i \in DOMAIN stLast :
              /\ \E k \in DOMAIN stStore : stStore[k] = stLast[i]
              /\ InWindow(stLast[i], stTime)
              /\ \A k \in DOMAIN stStore :
                    stStore[k].Symbol = stLast[i].Symbol /\ InWindow(stStore[k], stTime)
                        => stStore[k].GeneratedTimeUtc <= stLast[i].GeneratedTimeUtc

\* two active signals of one instrument, the older one added last, next to
\* an active signal of another instrument
C14_Witness ==
    /\ stPhase = "active"
    /\ Len(stLast) = 2
    /\ \E i, j \in DOMAIN stStore :
          /\ i < j
          /\ stStore[i].Symbol = stStore[j].Symbol
          /\ InWindow(stStore[i], stTime)
          /\ InWindow(stStore[j], stTime)
          /\ stStore[j].GeneratedTimeUtc < stStore[i].GeneratedTimeUtc

----------------------------------------------------------------------------
(* Claims about the targets of CreateTargets, under Spec *)

FlattenTargets(list) == SelectSeq(list, LAMBDA t : t.kind = "flatten")

\* C13: in every CreateTargets step that gets past the fast path, a flatten
\* target (of weight zero, one per instrument) is emitted for an instrument
\* exactly when one of its signals leaves the store in that step and none of
\* its signals still held is active at the current time
C13_FlattenTargets ==
    [][(pc = "targets" /\ PastFastPath) =>
          LET held == insightCollection \o insights
              flat == FlattenTargets(targets')
              Purged(s) == \E i \in DOMAIN held :
                               /\ held[i].Symbol = s
                               /\ Occurrences(insightCollection', held[i])
                                      < Occurrences(held, held[i])
              StillActive(s) == \E i \in DOMAIN insightCollection' :
                                   /\ insightCollection'[i].Symbol = s
                                   /\ InWindow(insightCollection'[i], now)
          IN  /\ \A s \in Universe :
                    (\E i \in DOMAIN flat : flat[i].Symbol = s)
                        <=> (Purged(s) /\ ~StillActive(s))
              /\ \A i \in DOMAIN flat : flat[i].weight = RatZero
              /\ \A i, j \in DOMAIN flat : i # j => flat[i].Symbol # flat[j].Symbol]_vars

\* one step purges signals of two instruments: one is flattened, the other
\* has a new active signal and is not
C13_Witness ==
    /\ pc = "done"
    /\ pcmCycle.ran /\ ~pcmCycle.fastPath
    /\ \E i, j \in DOMAIN pcmCycle.expiredSymbols :
          /\ \E k \in DOMAIN targets :
                /\ targets[k].kind = "flatten"
                /\ targets[k].Symbol = pcmCycle.expiredSymbols[i]
          /\ \E k \in DOMAIN insightCollection :
                /\ insightCollection[k].Symbol = pcmCycle.expiredSymbols[j]
                /\ InWindow(insightCollection[k], now)
          /\ \A k \in DOMAIN targets : targets[k].Symbol # pcmCycle.expiredSymbols[j]

\* C16: when an evaluation of the objective finds the annualized portfolio
\* standard deviation exactly zero, CreateTargets ends with the optimizer's
\* error: the step returns no target and holds no optimizer weights, equal or
\* other
C16_ZeroDeviationRaises ==
    pcmCycle.stdZero =>
        /\ pc = "failed"
        /\ ~pcmCycle.completed
        /\ targets = <<>>
        /\ pcmCycle.optWeights = <<>>

\* a rebalance over active instruments whose optimizer found a zero deviation
C16_Witness ==
    /\ pcmCycle.fired
    /\ pcmCycle.stdZero
    /\ Len(pcmCycle.lastActiveSymbols) > 0
    /\ pc = "failed"

\* the weight CreateTargets gives an active instrument at fraction f
ExpectedWeight(symbol) ==
    LET scaled == RatMul(WeightOf(pcmCycle.optWeights, symbol), pcmCycle.pctAggressive)
    IN  IF symbol = crashProtection /\ RatLess(pcmCycle.pctAggressive, RatOne)
        THEN RatAdd(scaled, RatSub(RatOne, pcmCycle.pctAggressive))
        ELSE scaled

\* C20: on a rebalance that emits weight targets with aggressive fraction f,
\* the target weight of every active instrument other than crash protection
\* is f times its optimizer weight, and when f < 1 the target weight of an
\* active crash protection instrument is f times its optimizer weight plus
\* 1 - f
C20_TargetWeights ==
    (pc = "done" /\ pcmCycle.fired /\ WeightTargets # <<>>) =>
        /\ Symbols(WeightTargets) = pcmCycle.lastActiveSymbols
        /\ \A i \in DOMAIN WeightTargets :
              /\ HasWeight(pcmCycle.optWeights, WeightTargets[i].Symbol)
              /\ WeightTargets[i].weight = ExpectedWeight(WeightTargets[i].Symbol)

\* f = 1/2 with a risky instrument and the crash protection instrument
\* active, both with a positive optimizer weight
C20_Witness ==
    /\ pc = "done" /\ pcmCycle.fired
    /\ pcmCycle.pctAggressive = Rat(1, 2)
    /\ \E i, j \in DOMAIN WeightTargets :
          /\ WeightTargets[i].Symbol = crashProtection
          /\ RatLess(RatZero, WeightOf(pcmCycle.optWeights, crashProtection))
          /\ RatLess(RatSub(RatOne, pcmCycle.pctAggressive), WeightTargets[i].weight)
          /\ WeightTargets[j].Symbol # crashProtection
          /\ RatLess(RatZero, WeightTargets[j].weight)
          /\ RatLess(WeightTargets[j].weight,
                     WeightOf(pcmCycle.optWeights, WeightTargets[j].Symbol))

----------------------------------------------------------------------------
(* Claims about the insights of Update, under Spec *)

\* the rebalance branch of this step's Update is due
AlphaDue ==
    now >= (IF alphaRebalancingTime = None THEN rebalancingPeriod(now)
            ELSE alphaRebalancingTime)

----------------------------------------------------------------------------
(* Claims about data gaps, under Spec *)

\* the provider's answer for a symbol cannot be scored: no rows, no close
\* column, a NaN close in the window, or a column whose scoring raises
Affected(entry) ==
    \/ entry.kind \in {"missing", "noclose", "malformed"}
    \/ \E i \in DOMAIN entry.levels : entry.levels[i] = NaN

\* C17: in a rebalance cycle an instrument without history, without close
\* column, with a NaN close in the window or whose scoring raises is left out
\* of the calculations and of the candidate list (and gets no weight target),
\* every other instrument asked for is scored, and the cycle does not raise
\* on that account, whichever instruments are affected (the only error of a
\* cycle is the optimizer's on a zero deviation)
C17_DataGaps ==
    /\ alphaCycle.fired =>
          /\ alphaCycle.completed
          /\ \A s \in Range(securities) :
                DictHas(alphaCycle.calculations, s) <=> ~Affected(history[s])
          /\ \A s \in Range(topMomentumSecurities) : ~Affected(history[s])
    /\ pcmCycle.fired =>
          /\ \A s \in Universe :
                Affected(history[s]) =>
                    /\ ~DictHas(pcmCycle.calculations, s)
                    /\ ~InList(s, pcmCycle.lastActiveSymbols)
                    /\ \A i \in DOMAIN WeightTargets : WeightTargets[i].Symbol # s
          /\ \A s \in Range(pcmCycle.canarySymbols) :
                DictHas(pcmCycle.calculations, s) <=> ~Affected(history[s])
          /\ \A s \in Range(pcmCycle.lastActiveSymbols) :
                DictHas(pcmCycle.calculations, s) \/ s = crashProtection
          /\ ~pcmCycle.completed => pcmCycle.stdZero

----------------------------------------------------------------------------
(* Claims about universe changes *)

\* C18: OnSecuritiesChanged applies universe changes idempotently: called
\* again with the changes it was last called with, it leaves the tracked
\* list as the first call left it, and after a call no removed instrument
\* remains in the list.  (Under SpecUniverse.)
C18_IdempotentChanges ==
    [][/\ ucLast' = ucLast => securities' = securities
       /\ \A i \in DOMAIN ucLast'.removed : ~InList(ucLast'.removed[i], securities')]_vars

\* C19: an instrument that has left the universe is in no candidate list
\* selected afterwards, no insight is generated for it afterwards, and a
\* CreateTargets step past the fast path leaves no insight in the store whose
\* expiry has passed.  (Under SpecRemoval.)
C19_RemovedLeavesNoSignals ==
    [][/\ (pc = "update" /\ pc' = "targets") =>
             \A i \in DOMAIN insights' : InList(insights'[i].Symbol, securities)
       /\ (pc = "update" /\ alphaCycle'.fired /\ alphaCycle'.completed) =>
             \A i \in DOMAIN topMomentumSecurities' :
                 InList(topMomentumSecurities'[i], securities)
       /\ (pc = "targets" /\ PastFastPath /\ pc' = "done") =>
             \A i \in DOMAIN insightCollection' :
                 insightCollection'[i].CloseTimeUtc > now]_vars

----------------------------------------------------------------------------
(* A step that fails in the weight computation *)

\* C22: when CreateTargets fails with the error of the zero standard
\* deviation, nothing done earlier in the step is undone and nothing of the
\* rest of the step is done: the store is the store before the step followed
\* by the step's signals (none purged, expired ones included), the next
\* rebalance time, due before, lies after the current time, the next expiry
\* time is the one before the step, and no target is returned
C22_FailedStepKeepsMutations ==
    [][(pc = "targets" /\ pcmCycle'.stdZero) =>
          /\ pc' = "failed"
          /\ insights # <<>>
          /\ insightCollection' = insightCollection \o insights
          /\ pcmRebalancingTime # None => pcmRebalancingTime <= now
          /\ pcmRebalancingTime' # None
          /\ pcmRebalancingTime' > now
          /\ nextExpiryTime' = nextExpiryTime
          /\ targets' = <<>>]_vars

\* a failed step of the second period: the store holds a signal that closed
\* at or before the current time, and a signal of this step
C22_Witness ==
    /\ pc = "failed"
    /\ pcmCycle.stdZero
    /\ \E i \in DOMAIN insightCollection : insightCollection[i].CloseTimeUtc <= now
    /\ \E i \in DOMAIN insightCollection : insightCollection[i].GeneratedTimeUtc = now
    /\ nextExpiryTime <= now
    /\ pcmRebalancingTime > now

----------------------------------------------------------------------------
(* The two next rebalance times *)

\* both models have run in the current step
StepDone == pc = "done" /\ pcmCycle.ran

----------------------------------------------------------------------------
(* The emitted weights as a whole *)

RECURSIVE TargetSum(_, _)
TargetSum(list, i) ==
    IF i > Len(list) THEN RatZero ELSE RatAdd(list[i].weight, TargetSum(list, i + 1))

\* 0 <= w <= 1
InUnitInterval(w) == ~RatLess(w, RatZero) /\ ~RatLess(RatOne, w)

C24_WitnessWithout ==
    /\ pc = "done" /\ pcmCycle.fired
    /\ pcmCycle.pctAggressive = Rat(1, 2)
    /\ WeightTargets # <<>>
    /\ ~InList(crashProtection, Symbols(WeightTargets))
    /\ TargetSum(WeightTargets, 1) = Rat(1, 2)

----------------------------------------------------------------------------
(* The weight lookups of the emission loop *)

\* C25: in a rebalance whose optimizer answer holds no NaN, every instrument
\* still in the active list has an entry in the weight vector, so the
\* emission loop fails on no lookup and gives each of them a target; an
\* instrument taken out of the active list had been asked for and has a gap
\* or a failed score, and gets no weight target; crash protection, when it
\* was no column of the optimizer, has the entry 0.
C25_NoLookupFails ==
    (pcmCycle.fired /\ pcmCycle.optWeights # <<>> /\ ~AnyNull(pcmCycle.optWeights)) =>
        /\ \A i \in DOMAIN pcmCycle.lastActiveSymbols :
              HasWeight(pcmCycle.optWeights, pcmCycle.lastActiveSymbols[i])
        /\ pc = "done"
        /\ Symbols(WeightTargets) = pcmCycle.lastActiveSymbols
        /\ \A i \in DOMAIN pcmCycle.activeSymbols :
              LET symbol == pcmCycle.activeSymbols[i]
              IN  ~InList(symbol, pcmCycle.lastActiveSymbols) =>
                      /\ Affected(history[symbol])
                      /\ ~InList(symbol, pcmCycle.columns)
        /\ ~InList(crashProtection, pcmCycle.columns) =>
              /\ HasWeight(pcmCycle.optWeights, crashProtection)
              /\ WeightOf(pcmCycle.optWeights, crashProtection) = RatZero

\* more active instruments than topMomentum: crash protection is active and
\* no column, and another active instrument was dropped for its data
C25_Witness ==
    /\ pc = "done" /\ pcmCycle.fired
    /\ WeightTargets # <<>>
    /\ Len(pcmCycle.activeSymbols) > topMomentum
    /\ InList(crashProtection, pcmCycle.lastActiveSymbols)
    /\ ~InList(crashProtection, pcmCycle.columns)
    /\ Len(pcmCycle.lastActiveSymbols) < Len(pcmCycle.activeSymbols)
    /\ pcmCycle.columns # <<>>

----------------------------------------------------------------------------
(* Crash protection in and out of the optimized set *)

\* C26: on a rebalance that emits weight targets with crash protection among
\* the active instruments: when more instruments are active than topMomentum,
\* the optimizer's columns are the other active instruments and the target
\* weight of crash protection is 1 - f for the aggressive fraction f; when at
\* most topMomentum instruments are active, crash protection is a column
\* next to the others.
C26_CrashProtectionComplement ==
    (pc = "done" /\ pcmCycle.fired /\ WeightTargets # <<>>
        /\ InList(crashProtection, pcmCycle.lastActiveSymbols)) =>
        IF Len(pcmCycle.activeSymbols) > topMomentum
        THEN /\ ~InList(crashProtection, pcmCycle.columns)
             /\ pcmCycle.columns = RemoveFirst(pcmCycle.lastActiveSymbols, crashProtection)
             /\ WeightOf(WeightTargets, crashProtection) =
                    RatSub(RatOne, pcmCycle.pctAggressive)
        ELSE /\ InList(crashProtection, pcmCycle.columns)
             /\ pcmCycle.columns = pcmCycle.lastActiveSymbols

\* topMomentum + 1 active instruments at f = 1/2: two risky columns with
\* positive weights, crash protection at 1/2
C26_Witness ==
    /\ pc = "done" /\ pcmCycle.fired
    /\ Len(pcmCycle.activeSymbols) > topMomentum
    /\ Len(pcmCycle.columns) = 2
    /\ Symbols(WeightTargets) = pcmCycle.lastActiveSymbols
    /\ \A i \in DOMAIN pcmCycle.columns :
          RatLess(RatZero, WeightOf(WeightTargets, pcmCycle.columns[i]))
    /\ pcmCycle.pctAggressive = Rat(1, 2)
    /\ InList(crashProtection, Symbols(WeightTargets))
    /\ WeightOf(WeightTargets, crashProtection) = Rat(1, 2)

\* at most topMomentum active instruments, crash protection optimized next
\* to a risky instrument
C26_WitnessTogether ==
    /\ pc = "done" /\ pcmCycle.fired
    /\ Len(pcmCycle.activeSymbols) <= topMomentum
    /\ Len(pcmCycle.columns) = 2
    /\ InList(crashProtection, pcmCycle.columns)
    /\ WeightTargets # <<>>

----------------------------------------------------------------------------
(* Flattening comes *)

\* the instruments the Alpha model emits signals for
SignalSymbols == Range(riskyTickers \o crashProtectionTicker)

\* the store holds a signal of the instrument at the end of a step
HoldsSignals(symbol) ==
    pc = "done" /\ InList(symbol, Symbols(insightCollection))

\* the step purged the instrument's signals and returned its flatten target
Flattened(symbol) ==
    /\ pc = "done"
    /\ ~InList(symbol, Symbols(insightCollection))
    /\ InList(symbol, Symbols(FlattenTargets(targets)))

\* a later step generates a new signal for the instrument
NewSignal(symbol) == pc = "targets" /\ InList(symbol, Symbols(insights))

\* the last step the clock allows has run and no held signal of the
\* instrument closed before it
ClockRanOut(symbol) ==
    /\ pc = "done"
    /\ now + 1 > MaxTime
    /\ \A i \in DOMAIN insightCollection :
          insightCollection[i].Symbol = symbol => insightCollection[i].CloseTimeUtc >= now

\* C27: when the store holds signals of an instrument at the end of a step,
\* then, steps following one another, a later step generates a new signal for
\* it, or a step fails, or a step purges its signals and returns a flatten
\* target for it, whatever signals other instruments get; the clock of the
\* model stops only on signals that had not closed before the last step.
C27_FlattenComes ==
    \A symbol \in SignalSymbols :
        HoldsSignals(symbol) ~>
            (Flattened(symbol) \/ NewSignal(symbol) \/ pc = "failed" \/ ClockRanOut(symbol))

\* a step without any new signal, past the fast path, flattens an instrument
C27_Witness ==
    /\ pc = "done"
    /\ insights = <<>>
    /\ pcmCycle.ran /\ ~pcmCycle.fastPath
    /\ \E symbol \in SignalSymbols : Flattened(symbol)

\* an instrument is flattened in a step that brings another one a new signal
C27_WitnessOthers ==
    /\ pc = "done"
    /\ insights # <<>>
    /\ \E symbol \in SignalSymbols :
          /\ Flattened(symbol)
          /\ ~InList(symbol, Symbols(insights))

\* the safety half of C27 in the whole pipeline: at the end of a step the
\* store holds no signal that closed before the step's time
C27_NoPassedSignalHeld ==
    pc = "done" =>
        \A i \in DOMAIN insightCollection : insightCollection[i].CloseTimeUtc >= now

====
